---- MODULE Spec2Model ----
(***************************************************************************)
(* tsdv-joi: decorators that accumulate one Joi schema per class property  *)
(* in a per-prototype metadata store, and the validation of instances      *)
(* against the accumulated schemas.                                        *)
(*                                                                         *)
(* The decorators of src/src/constraints/any.ts are modelled one action    *)
(* each.  The Joi schema algebra they delegate to is modelled by the       *)
(* lower-case operators (optional, concat, when, ...), one per Joi method  *)
(* the source calls.                                                       *)
(***************************************************************************)
EXTENDS Integers, Sequences, FiniteSets, TLC

(* ------------------------------ bounds -------------------------------- *)

\* Decorator applications per class definition, any decorator of the catalogue.
MaxDecorators == 2

\* Decorator applications per class definition in the validated classes.
MaxGotchaDecorators == 3

\* validate() calls on the instance under test.
MaxValidations == 2

(* ------------------------------ values -------------------------------- *)

Props == {"myProperty", "otherProperty"}

Undefined == [type |-> "undefined"]

Num(n) == [type |-> "number", num |-> n]

Bool(b) == [type |-> "boolean", bool |-> b]

Obj(v) == [type |-> "object", nestedProperty |-> v]

\* @Min(10) of the gotcha tests; 5 and 20 are the values below and above it.
MinLimit == 10

BelowLimit == 5

AboveLimit == 20

NestedNumber == 123

\* Property values an instance under validation may carry.
InstanceValues == {Undefined, Num(BelowLimit), Num(AboveLimit), Bool(TRUE), Obj(Num(NestedNumber))}

\* The runtime "design:type" the compiler emits for a declared property type:
\* Boolean for `boolean`; Object for unions and anonymous object types.
DesignTypes == {"Boolean", "Object"}

(* --------------------------- schema algebra --------------------------- *)

NoSchema == [kind |-> "none"]

Absent == [kind |-> "absent"]

NoSettings == [abortEarly |-> "unset", convert |-> "unset"]

\* A freshly constructed, unrefined Joi schema of the given type.
JoiBase(k) ==
    [kind |-> k, presence |-> "unset", valids |-> {}, invalids |-> {},
     allowOnly |-> FALSE, default |-> Undefined, description |-> "",
     empty |-> NoSchema, examples |-> <<>>, label |-> "", meta |-> <<>>,
     notes |-> <<>>, tags |-> <<>>, unit |-> "", settings |-> NoSettings,
     raw |-> "unset", strip |-> FALSE, tests |-> <<>>, truthy |-> {},
     keys |-> NoSchema, matches |-> <<>>, baseType |-> NoSchema]

allow(s, values) ==
    [s EXCEPT !.valids = @ \cup values, !.invalids = @ \ values]

valid(s, values) ==
    [allow(s, values) EXCEPT !.allowOnly = TRUE]

invalid(s, values) ==
    [s EXCEPT !.invalids = @ \cup values, !.valids = @ \ values]

default(s, value) == [s EXCEPT !.default = value]

description(s, desc) == [s EXCEPT !.description = desc]

empty(s, schema) == [s EXCEPT !.empty = schema]

example(s, value) == [s EXCEPT !.examples = Append(@, value)]

forbidden(s) == [s EXCEPT !.presence = "forbidden"]

optional(s) == [s EXCEPT !.presence = "optional"]

required(s) == [s EXCEPT !.presence = "required"]

label(s, name) == [s EXCEPT !.label = name]

meta(s, m) == [s EXCEPT !.meta = Append(@, m)]

notes(s, ns) == [s EXCEPT !.notes = @ \o ns]

tags(s, ts) == [s EXCEPT !.tags = @ \o ts]

unit(s, name) == [s EXCEPT !.unit = name]

MergeSettings(a, b) ==
    [abortEarly |-> IF b.abortEarly # "unset" THEN b.abortEarly ELSE a.abortEarly,
     convert |-> IF b.convert # "unset" THEN b.convert ELSE a.convert]

options(s, opts) == [s EXCEPT !.settings = MergeSettings(@, opts)]

raw(s, isRaw) == [s EXCEPT !.raw = IF isRaw THEN "true" ELSE "false"]

strict(s, isStrict) ==
    [s EXCEPT !.settings.convert = IF isStrict THEN "false" ELSE "true"]

strip(s) == [s EXCEPT !.strip = TRUE]

min(s, lim) == [s EXCEPT !.tests = Append(@, [name |-> "min", limit |-> lim])]

truthy(s, values) == [s EXCEPT !.truthy = @ \cup values]

keys(s, map) == [s EXCEPT !.keys = map]

Override(b, a, unset) == IF b # unset THEN b ELSE a

\* any.concat: the rules of schema b added to those of schema a.
RECURSIVE concat(_, _)
concat(a, b) ==
    [kind |-> IF a.kind = "any" /\ b.kind # "any" THEN b.kind ELSE a.kind,
     presence |-> Override(b.presence, a.presence, "unset"),
     valids |-> (a.valids \cup b.valids) \ b.invalids,
     invalids |-> (a.invalids \cup b.invalids) \ b.valids,
     allowOnly |-> a.allowOnly \/ b.allowOnly,
     default |-> Override(b.default, a.default, Undefined),
     description |-> Override(b.description, a.description, ""),
     empty |-> Override(b.empty, a.empty, NoSchema),
     examples |-> a.examples \o b.examples,
     label |-> Override(b.label, a.label, ""),
     meta |-> a.meta \o b.meta,
     notes |-> a.notes \o b.notes,
     tags |-> a.tags \o b.tags,
     unit |-> Override(b.unit, a.unit, ""),
     settings |-> MergeSettings(a.settings, b.settings),
     raw |-> Override(b.raw, a.raw, "unset"),
     strip |-> a.strip \/ b.strip,
     tests |-> a.tests \o b.tests,
     truthy |-> a.truthy \cup b.truthy,
     keys |-> IF b.keys = NoSchema THEN a.keys
              ELSE IF a.keys = NoSchema THEN b.keys
              ELSE [nestedProperty |->
                        concat(a.keys.nestedProperty, b.keys.nestedProperty)],
     matches |-> a.matches \o b.matches,
     baseType |-> IF a.kind = "any" /\ b.kind # "any" THEN b.baseType
                  ELSE a.baseType]

\* Cast.schema of a literal `is` value: Joi.valid(v).required().
CastIs(v) == required(valid(JoiBase("any"), {v}))

\* any.when / alternatives.when with a `then` branch only.
when(s, ref, is, then) ==
    IF s.kind = "alternatives"
    THEN [s EXCEPT !.matches = Append(@,
              [ref |-> ref, is |-> CastIs(is),
               then |-> IF s.baseType # NoSchema
                        THEN concat(s.baseType, then) ELSE then])]
    ELSE [JoiBase("alternatives") EXCEPT
              !.matches = <<[ref |-> ref, is |-> CastIs(is),
                             then |-> concat(s, then)]>>,
              !.presence = "ignore",
              !.baseType = s]

(* ----------------------------- validation ----------------------------- *)

Err(type) == [path |-> <<>>, type |-> type]

Prefixed(key, errs) ==
    [i \in 1..Len(errs) |-> [errs[i] EXCEPT !.path = <<key>> \o @]]

NoParent == [p \in Props |-> Undefined]

\* The value a schema's validation hands back (finish() of any._validate).
FinalValue(s, original, value) ==
    IF s.strip THEN Undefined
    ELSE IF value # Undefined
         THEN (IF s.raw = "true" THEN original ELSE value)
         ELSE s.default

\* The number tests (min) run in order; with abortEarly the first failure ends.
RECURSIVE RunTests(_, _, _, _)
RunTests(tests, i, value, abortEarly) ==
    IF i > Len(tests) THEN <<>>
    ELSE IF value.num >= tests[i].limit
         THEN RunTests(tests, i + 1, value, abortEarly)
         ELSE IF abortEarly THEN <<Err("number.min")>>
              ELSE <<Err("number.min")>> \o RunTests(tests, i + 1, value, abortEarly)

RECURSIVE Validate(_, _, _, _)
RECURSIVE AlternativesBase(_, _, _, _, _)
AlternativesBase(s, i, value, parent, abortEarly) ==
    IF i > Len(s.matches)
    THEN [errors |-> <<Err("alternatives.base")>>, value |-> value]
    ELSE LET item == s.matches[i]
             failed == Validate(item.is, parent[item.ref], NoParent, abortEarly).errors # <<>>
         IN  IF ~failed
             THEN Validate(item.then, value, parent, abortEarly)
             ELSE IF i = Len(s.matches) /\ s.baseType # NoSchema
                  THEN Validate(s.baseType, value, parent, abortEarly)
                  ELSE AlternativesBase(s, i + 1, value, parent, abortEarly)

\* The type check and conversion of each schema type (_base).
Base(s, value, parent, abortEarly) ==
    CASE s.kind = "any" -> [errors |-> <<>>, value |-> value]
      [] s.kind = "number" ->
            [errors |-> IF value.type = "number" THEN <<>> ELSE <<Err("number.base")>>,
             value |-> value]
      [] s.kind = "boolean" ->
            IF value.type = "boolean" THEN [errors |-> <<>>, value |-> value]
            ELSE IF value \in s.truthy THEN [errors |-> <<>>, value |-> Bool(TRUE)]
            ELSE [errors |-> <<Err("boolean.base")>>, value |-> value]
      [] s.kind = "object" ->
            IF value.type # "object"
            THEN [errors |-> <<Err("object.base")>>, value |-> value]
            ELSE IF s.keys = NoSchema THEN [errors |-> <<>>, value |-> value]
            ELSE LET r == Validate(s.keys.nestedProperty, value.nestedProperty,
                                   NoParent, abortEarly)
                 IN  [errors |-> Prefixed("nestedProperty", r.errors),
                      value |-> Obj(r.value)]
      [] s.kind = "alternatives" -> AlternativesBase(s, 1, value, parent, abortEarly)

\* any._validate: empty, presence, allowed and denied values, type, tests.
Validate(s, original, parent, abortEarlyOption) ==
    LET abortEarly == IF s.settings.abortEarly = "unset" THEN abortEarlyOption
                      ELSE s.settings.abortEarly = "true"
        value == IF s.empty # NoSchema
                    /\ Validate(s.empty, original, NoParent, TRUE).errors = <<>>
                 THEN Undefined ELSE original
        presence == IF s.presence = "unset" THEN "optional" ELSE s.presence
        Finish(errs, v) == [errors |-> errs, value |-> FinalValue(s, original, v)]
        denied == IF value \in s.invalids THEN <<Err("any.invalid")>> ELSE <<>>
        base == Base(s, value, parent, abortEarly)
        denied2 == IF base.value # value /\ base.value \in s.invalids
                   THEN <<Err("any.invalid")>> ELSE <<>>
        only == IF s.allowOnly THEN <<Err("any.allowOnly")>> ELSE <<>>
        tested == IF s.kind = "number"
                  THEN RunTests(s.tests, 1, base.value, abortEarly) ELSE <<>>
    IN  CASE presence = "optional" /\ value = Undefined -> Finish(<<>>, value)
          [] presence = "required" /\ value = Undefined ->
                Finish(<<Err("any.required")>>, value)
          [] presence = "forbidden" ->
                IF value = Undefined THEN Finish(<<>>, value)
                ELSE Finish(<<Err("any.unknown")>>, value)
          [] OTHER ->
                IF value \in s.valids THEN Finish(<<>>, value)
                ELSE IF denied # <<>> /\ (abortEarly \/ value = Undefined)
                THEN Finish(denied, value)
                ELSE IF base.errors # <<>>
                THEN Finish(denied \o base.errors, base.value)
                ELSE IF base.value # value /\ base.value \in s.valids
                THEN Finish(denied, base.value)
                ELSE IF denied2 # <<>> /\ abortEarly
                THEN Finish(denied \o denied2, base.value)
                ELSE IF only # <<>> /\ abortEarly
                THEN Finish(denied \o denied2 \o only, base.value)
                ELSE Finish(denied \o denied2 \o only \o tested, base.value)

\* Validator.validate: the class schema is an object schema whose keys are the
\* stored property schemas, in insertion order; instance keys without a schema
\* are unknown keys, which Joi rejects.
RECURSIVE ValidateKeys(_, _, _, _)
ValidateKeys(st, i, inst, abortEarly) ==
    IF i > Len(st) THEN [errors |-> <<>>, value |-> [p \in {} |-> Undefined]]
    ELSE LET r == Validate(st[i].schema, inst[st[i].key], inst, abortEarly)
             errs == Prefixed(st[i].key, r.errors)
             rest == IF errs # <<>> /\ abortEarly
                     THEN [errors |-> <<>>, value |-> [p \in {} |-> Undefined]]
                     ELSE ValidateKeys(st, i + 1, inst, abortEarly)
         IN  [errors |-> errs \o rest.errors,
              value |-> (st[i].key :> r.value) @@ rest.value]

StoredKeys(st) == {st[i].key : i \in 1..Len(st)}

UnknownKeys(st, inst) == {p \in Props \ StoredKeys(st) : inst[p] # Undefined}

ValidateInstance(st, inst, abortEarly) ==
    LET known == ValidateKeys(st, 1, inst, abortEarly)
        unknown == UnknownKeys(st, inst)
        \* at most one key is unknown once a property has a schema
        unknownErrs == IF unknown = {} \/ (known.errors # <<>> /\ abortEarly) THEN <<>>
                       ELSE <<[path |-> <<CHOOSE p \in unknown : TRUE>>,
                               type |-> "object.allowUnknown"]>>
        errs == known.errors \o unknownErrs
    IN  [errors |-> errs,
         value |-> [p \in Props |->
                      IF p \in DOMAIN known.value THEN known.value[p] ELSE inst[p]]]

(* ---------------------------- metadata store --------------------------- *)

VARIABLES
    designType,   \* the declared (runtime) type of each property of the class
    limit,        \* the number of decorators the class body holds at most
    store,        \* the working schema of the class prototype: <<[key, schema]>>
    applied,      \* the decorators applied so far, in application order
    thrown,       \* the error that aborted the class definition, if any
    defined,      \* the class body has finished evaluating
    instance,     \* the instance under validation
    outcomes      \* the outcomes of the validate calls on the instance

vars == <<designType, limit, store, applied, thrown, defined, instance, outcomes>>

NoError == [type |-> "none", prop |-> ""]

ValidationSchemaNotFound(p) == [type |-> "ValidationSchemaNotFound", prop |-> p]

ConstraintDefinitionError(p) == [type |-> "ConstraintDefinitionError", prop |-> p]

\* Hoek.assert failing inside a Joi method.
JoiAssertionError == [type |-> "Error", prop |-> ""]

getPropertySchema(st, p) ==
    IF \E i \in 1..Len(st) : st[i].key = p
    THEN st[CHOOSE i \in 1..Len(st) : st[i].key = p].schema
    ELSE Absent

updateSchema(st, p, schema) ==
    IF \E i \in 1..Len(st) : st[i].key = p
    THEN [i \in 1..Len(st) |-> IF st[i].key = p THEN [st[i] EXCEPT !.schema = schema]
                                ELSE st[i]]
    ELSE Append(st, [key |-> p, schema |-> schema])

\* The schema guessed from the property's design type: a boolean property gets
\* a boolean schema; an Object design type (union, anonymous object) gets none.
guessTypeSchema(type) ==
    IF type = "Boolean" THEN JoiBase("boolean") ELSE Absent

\* The schema getAndUpdateSchema hands to the decorator's update function.
CallbackSchema(p) ==
    IF getPropertySchema(store, p) # Absent THEN getPropertySchema(store, p)
    ELSE guessTypeSchema(designType[p])

Dec(name, p) ==
    [name |-> name, prop |-> p, values |-> {}, schema |-> NoSchema,
     flag |-> FALSE, ref |-> "", limit |-> 0]

\* Decorators run while the class body is being evaluated; an error ends it.
CanDecorate == ~defined /\ thrown = NoError /\ Len(applied) < limit

Throw(d, error) ==
    /\ applied' = Append(applied, d)
    /\ thrown' = error
    /\ UNCHANGED <<designType, limit, store, defined, instance, outcomes>>

Store(d, schema) ==
    /\ applied' = Append(applied, d)
    /\ store' = updateSchema(store, d.prop, schema)
    /\ UNCHANGED <<designType, limit, thrown, defined, instance, outcomes>>

getAndUpdateSchema(d, updated) ==
    /\ CanDecorate
    /\ IF CallbackSchema(d.prop) = Absent
       THEN Throw(d, ValidationSchemaNotFound(d.prop))
       ELSE Store(d, updated)

(* ------------------------ decorator arguments -------------------------- *)

ValueLists == {{Num(BelowLimit)}}

ConcatSchemas == {required(JoiBase("any"))}

EmptySchemas == {valid(JoiBase("any"), {Num(BelowLimit)})}

ThenSchemas == {required(JoiBase("any"))}

KeyMaps == {[nestedProperty |-> JoiBase("number")]}

NoAbortEarly == [abortEarly |-> "false", convert |-> "unset"]

(* ------------------- decorators of constraints/any.ts ------------------ *)

Allow(p, values) ==
    getAndUpdateSchema([Dec("Allow", p) EXCEPT !.values = values],
                       allow(CallbackSchema(p), values))

\* Mutant: the existence check is dropped and the stored schema overwritten.
AnySchema_Overwrites(p) ==
    /\ CanDecorate
    /\ Store(Dec("AnySchema", p), JoiBase("any"))

\* Mutant: the class metadata is replaced by a fresh map holding this entry.
AnySchema_ReplacesMetadata(p) ==
    /\ CanDecorate
    /\ IF getPropertySchema(store, p) # Absent
       THEN Throw(Dec("AnySchema", p), ConstraintDefinitionError(p))
       ELSE /\ applied' = Append(applied, Dec("AnySchema", p))
            /\ store' = <<[key |-> p, schema |-> JoiBase("any")]>>
            /\ UNCHANGED <<designType, limit, thrown, defined, instance, outcomes>>

AnySchema(p) ==
    /\ CanDecorate
    /\ IF getPropertySchema(store, p) # Absent
       THEN Throw(Dec("AnySchema", p), ConstraintDefinitionError(p))
       ELSE Store(Dec("AnySchema", p), JoiBase("any"))

\* The update function's parameter shadows the decorator's: the stored schema
\* is concatenated with itself.
Concat(p, schema) ==
    getAndUpdateSchema([Dec("Concat", p) EXCEPT !.schema = schema],
                       concat(CallbackSchema(p), CallbackSchema(p)))

Default(p, value) ==
    getAndUpdateSchema([Dec("Default", p) EXCEPT !.values = {value}],
                       default(CallbackSchema(p), value))

Description(p) ==
    getAndUpdateSchema(Dec("Description", p), description(CallbackSchema(p), "desc"))

\* Mutant: the update function returns the argument schema.
Empty_ReturnsArgument(p, schema) ==
    getAndUpdateSchema([Dec("Empty", p) EXCEPT !.schema = schema], schema)

Empty(p, schema) ==
    getAndUpdateSchema([Dec("Empty", p) EXCEPT !.schema = schema],
                       empty(CallbackSchema(p), schema))

\* schema.example throws when the example fails validation.
Example(p, value) ==
    /\ CanDecorate
    /\ IF CallbackSchema(p) # Absent
          /\ Validate(CallbackSchema(p), value, NoParent, TRUE).errors # <<>>
       THEN Throw([Dec("Example", p) EXCEPT !.values = {value}], JoiAssertionError)
       ELSE getAndUpdateSchema([Dec("Example", p) EXCEPT !.values = {value}],
                               example(CallbackSchema(p), value))

Forbidden(p) ==
    getAndUpdateSchema(Dec("Forbidden", p), forbidden(CallbackSchema(p)))

Invalid(p, values) ==
    getAndUpdateSchema([Dec("Invalid", p) EXCEPT !.values = values],
                       invalid(CallbackSchema(p), values))

Label(p) ==
    getAndUpdateSchema(Dec("Label", p), label(CallbackSchema(p), "name"))

Meta(p) ==
    getAndUpdateSchema(Dec("Meta", p), meta(CallbackSchema(p), "meta"))

Notes(p) ==
    getAndUpdateSchema(Dec("Notes", p), notes(CallbackSchema(p), <<"note">>))

\* Mutant: a missing schema is replaced by Joi.any() instead of being reported.
Optional_Establishes(p) ==
    /\ CanDecorate
    /\ Store(Dec("Optional", p),
             optional(IF CallbackSchema(p) = Absent THEN JoiBase("any")
                      ELSE CallbackSchema(p)))

\* Mutant: the wrong presence operation is called.
Optional_Requires(p) ==
    getAndUpdateSchema(Dec("Optional", p), required(CallbackSchema(p)))

Optional(p) ==
    getAndUpdateSchema(Dec("Optional", p), optional(CallbackSchema(p)))

Options(p) ==
    getAndUpdateSchema(Dec("Options", p), options(CallbackSchema(p), NoAbortEarly))

Raw(p, isRaw) ==
    getAndUpdateSchema([Dec("Raw", p) EXCEPT !.flag = isRaw],
                       raw(CallbackSchema(p), isRaw))

\* Mutant: the wrong presence operation is called.
Required_Optional(p) ==
    getAndUpdateSchema(Dec("Required", p), optional(CallbackSchema(p)))

Required(p) ==
    getAndUpdateSchema(Dec("Required", p), required(CallbackSchema(p)))

Strict(p, isStrict) ==
    getAndUpdateSchema([Dec("Strict", p) EXCEPT !.flag = isStrict],
                       strict(CallbackSchema(p), isStrict))

Strip(p) ==
    getAndUpdateSchema(Dec("Strip", p), strip(CallbackSchema(p)))

Tags(p) ==
    getAndUpdateSchema(Dec("Tags", p), tags(CallbackSchema(p), <<"tag">>))

Unit(p) ==
    getAndUpdateSchema(Dec("Unit", p), unit(CallbackSchema(p), "unit"))

Valid(p, values) ==
    getAndUpdateSchema([Dec("Valid", p) EXCEPT !.values = values],
                       valid(CallbackSchema(p), values))

When(p, ref, is, then) ==
    getAndUpdateSchema([Dec("When", p) EXCEPT !.ref = ref, !.values = {is},
                                              !.schema = then],
                       when(CallbackSchema(p), ref, is, then))

(* -------------- decorators of the other constraint modules ------------- *)

\* An establishing decorator of another base kind (NumberSchema,
\* BooleanSchema, ObjectSchema): the pattern of AnySchema.
TypeSchema(name, p, kind) ==
    /\ CanDecorate
    /\ IF getPropertySchema(store, p) # Absent
       THEN Throw(Dec(name, p), ConstraintDefinitionError(p))
       ELSE Store(Dec(name, p), JoiBase(kind))

NumberSchema(p) == TypeSchema("NumberSchema", p, "number")

BooleanSchema(p) == TypeSchema("BooleanSchema", p, "boolean")

ObjectSchema(p) == TypeSchema("ObjectSchema", p, "object")

\* Kind-specific refinements are applied to a schema of their own kind, or to
\* a property without one.
Applies(p, kind) == CallbackSchema(p) = Absent \/ CallbackSchema(p).kind = kind

Min(p, lim) ==
    /\ CanDecorate
    /\ Applies(p, "number")
    /\ getAndUpdateSchema([Dec("Min", p) EXCEPT !.limit = lim],
                          min(CallbackSchema(p), lim))

Truthy(p, values) ==
    /\ CanDecorate
    /\ Applies(p, "boolean")
    /\ getAndUpdateSchema([Dec("Truthy", p) EXCEPT !.values = values],
                          truthy(CallbackSchema(p), values))

\* Mutant: a missing schema is replaced by Joi.object() instead of being reported.
Keys_Establishes(p, map) ==
    /\ CanDecorate
    /\ Store([Dec("Keys", p) EXCEPT !.schema = map],
             keys(IF CallbackSchema(p) = Absent THEN JoiBase("object")
                  ELSE CallbackSchema(p), map))

Keys(p, map) ==
    /\ CanDecorate
    /\ Applies(p, "object")
    /\ getAndUpdateSchema([Dec("Keys", p) EXCEPT !.schema = map],
                          keys(CallbackSchema(p), map))

(* ------------------------- class and validation ------------------------ *)

\* The class body has finished evaluating without an error.
ClassDefined ==
    /\ ~defined
    /\ thrown = NoError
    /\ defined' = TRUE
    /\ UNCHANGED <<designType, limit, store, applied, thrown, instance, outcomes>>

\* Instances of the class: values of its declared properties.
Instances ==
    {i \in [Props -> InstanceValues] :
        i["otherProperty"] \in {Undefined, Num(BelowLimit)}}

NoInstance == [p \in {} |-> Undefined]

\* new ClassToValidate(), with its properties assigned.
construct(inst) ==
    /\ defined
    /\ store # <<>>
    /\ instance = NoInstance
    /\ instance' = inst
    /\ UNCHANGED <<designType, limit, store, applied, thrown, defined, outcomes>>

\* Mutant: the validated (defaulted, converted) value is written to the instance.
validate_AssignsValue ==
    /\ instance # NoInstance
    /\ Len(outcomes) < MaxValidations
    /\ outcomes' = Append(outcomes, ValidateInstance(store, instance, TRUE))
    /\ instance' = ValidateInstance(store, instance, TRUE).value
    /\ UNCHANGED <<designType, limit, store, applied, thrown, defined>>

\* validate(instance) with Joi's default options (abortEarly): the class
\* schema is read from the store and the outcome is returned.
validate ==
    /\ instance # NoInstance
    /\ Len(outcomes) < MaxValidations
    /\ outcomes' = Append(outcomes, ValidateInstance(store, instance, TRUE))
    /\ UNCHANGED <<designType, limit, store, applied, thrown, defined, instance>>

Declared(n) ==
    /\ designType \in [Props -> DesignTypes]
    /\ limit = n
    /\ store = <<>>
    /\ applied = <<>>
    /\ thrown = NoError
    /\ defined = FALSE
    /\ instance = NoInstance
    /\ outcomes = <<>>

Init == Declared(MaxDecorators)

Next ==
    \/ \E p \in Props :
          \/ NumberSchema(p)
          \/ BooleanSchema(p)
          \/ ObjectSchema(p)
          \/ Min(p, MinLimit)
          \/ \E values \in ValueLists : Truthy(p, values)
          \/ \E map \in KeyMaps : Keys(p, map)
          \/ AnySchema(p)
          \/ \E values \in ValueLists : Allow(p, values)
          \/ \E schema \in ConcatSchemas : Concat(p, schema)
          \/ Default(p, Num(AboveLimit))
          \/ Description(p)
          \/ \E schema \in EmptySchemas : Empty(p, schema)
          \/ Example(p, Num(AboveLimit))
          \/ Forbidden(p)
          \/ \E values \in ValueLists : Invalid(p, values)
          \/ Label(p)
          \/ Meta(p)
          \/ Notes(p)
          \/ Optional(p)
          \/ Options(p)
          \/ \E isRaw \in BOOLEAN : Raw(p, isRaw)
          \/ Required(p)
          \/ \E isStrict \in BOOLEAN : Strict(p, isStrict)
          \/ Strip(p)
          \/ Tags(p)
          \/ Unit(p)
          \/ \E values \in ValueLists : Valid(p, values)
          \/ \E ref \in Props \ {p}, then \in ThenSchemas :
                When(p, ref, Num(BelowLimit), then)
    \/ ClassDefined

Spec == Init /\ [][Next]_vars

\* Classes written with the decorators of the gotcha tests (and Required and
\* Default), their instances and the validation of those.
InitGotchas == Declared(MaxGotchaDecorators)

NextGotchas ==
    \/ \E p \in Props :
          \/ AnySchema(p)
          \/ NumberSchema(p)
          \/ ObjectSchema(p)
          \/ Optional(p)
          \/ Required(p)
          \/ Default(p, Num(AboveLimit))
          \/ Min(p, MinLimit)
          \/ \E map \in KeyMaps : Keys(p, map)
    \/ ClassDefined
    \/ \E inst \in Instances : construct(inst)
    \/ validate

SpecGotchas == InitGotchas /\ [][NextGotchas]_vars

(* ------------------------------ histories ------------------------------ *)

EstablisherNames == {"AnySchema", "NumberSchema", "BooleanSchema", "ObjectSchema"}

RefinementNames ==
    {"Allow", "Concat", "Default", "Description", "Empty", "Example", "Forbidden",
     "Invalid", "Label", "Meta", "Notes", "Optional", "Options", "Raw", "Required",
     "Strict", "Strip", "Tags", "Unit", "Valid", "When", "Min", "Truthy", "Keys"}

BaseKinds == {"any", "boolean", "number", "object", "alternatives"}

KindOf(name) ==
    CASE name = "AnySchema" -> "any"
      [] name = "NumberSchema" -> "number"
      [] name = "BooleanSchema" -> "boolean"
      [] name = "ObjectSchema" -> "object"

\* The decorators applied to property p, in application order.
OnProp(p) == SelectSeq(applied, LAMBDA d : d.prop = p)

NamesOf(seq) == [i \in 1..Len(seq) |-> seq[i].name]

\* The decorators of property p as they are written in the class body, top
\* to bottom: the one written lowest, closest to the property, is applied first.
DeclaredOrder(p) ==
    LET names == NamesOf(OnProp(p))
    IN  [i \in 1..Len(names) |-> names[Len(names) + 1 - i]]

\* The class body decorates property p only.
OnlyDecorated(p) == \A i \in 1..Len(applied) : applied[i].prop = p

\* A decorator ran in this step; Ran' is the decorator.
DecoratorStep == Len(applied') = Len(applied) + 1

Ran == applied[Len(applied)]

LastOutcome == outcomes[Len(outcomes)]

\* An instance that carries property p only, with value v.
Carries(p, v) ==
    /\ instance # NoInstance
    /\ instance[p] = v
    /\ \A q \in Props \ {p} : instance[q] = Undefined

(* ------------------- claims about the class definition ----------------- *)

\* C1 (as stated): a refinement decorator applied while the store holds no
\* schema for its property always throws ValidationSchemaNotFound naming the
\* property, infers no base kind and creates no entry.
C1_RefinementWithoutSchemaThrows ==
    [][\A p \in Props :
          (/\ DecoratorStep
           /\ Ran'.prop = p
           /\ Ran'.name \in RefinementNames
           /\ getPropertySchema(store, p) = Absent)
          => (/\ thrown' = ValidationSchemaNotFound(p)
              /\ store' = store)]_vars

\* C1 (amended): the same, for a property whose declared type gives no base
\* kind at run time (design type Object: union and anonymous object types).
C1_RefinementOnUntypedThrows ==
    [][\A p \in Props :
          (/\ DecoratorStep
           /\ Ran'.prop = p
           /\ Ran'.name \in RefinementNames
           /\ getPropertySchema(store, p) = Absent
           /\ designType[p] = "Object")
          => (/\ thrown' = ValidationSchemaNotFound(p)
              /\ store' = store)]_vars

\* C1 witness: Optional, applied first to a union-typed property, has thrown.
C1_Witness ==
    /\ applied # <<>>
    /\ Ran.name = "Optional"
    /\ designType[Ran.prop] = "Object"
    /\ getPropertySchema(store, Ran.prop) = Absent
    /\ thrown = ValidationSchemaNotFound(Ran.prop)

\* C2: an establishing decorator applied to a property that already has a
\* schema throws ConstraintDefinitionError naming the property and leaves the
\* stored schemas unchanged.
C2_SecondEstablisherThrows ==
    [][\A p \in Props :
          (/\ DecoratorStep
           /\ Ran'.prop = p
           /\ Ran'.name \in EstablisherNames
           /\ getPropertySchema(store, p) # Absent)
          => (/\ thrown' = ConstraintDefinitionError(p)
              /\ store' = store)]_vars

\* C2 witness: AnySchema on an already established property has thrown.
C2_Witness ==
    /\ Len(applied) = 2
    /\ Ran.name = "AnySchema"
    /\ applied[1].prop = Ran.prop
    /\ applied[1].name \in EstablisherNames
    /\ thrown = ConstraintDefinitionError(Ran.prop)
    /\ getPropertySchema(store, Ran.prop) = JoiBase(KindOf(applied[1].name))

\* The algebra operation a refinement decorator stands for, with the
\* decorator's own arguments.
OwnOperation(d, s) ==
    CASE d.name = "Allow" -> allow(s, d.values)
      [] d.name = "Concat" -> concat(s, d.schema)
      [] d.name = "Default" -> default(s, CHOOSE v \in d.values : TRUE)
      [] d.name = "Description" -> description(s, "desc")
      [] d.name = "Empty" -> empty(s, d.schema)
      [] d.name = "Example" -> example(s, CHOOSE v \in d.values : TRUE)
      [] d.name = "Forbidden" -> forbidden(s)
      [] d.name = "Invalid" -> invalid(s, d.values)
      [] d.name = "Label" -> label(s, "name")
      [] d.name = "Meta" -> meta(s, "meta")
      [] d.name = "Notes" -> notes(s, <<"note">>)
      [] d.name = "Optional" -> optional(s)
      [] d.name = "Options" -> options(s, NoAbortEarly)
      [] d.name = "Raw" -> raw(s, d.flag)
      [] d.name = "Required" -> required(s)
      [] d.name = "Strict" -> strict(s, d.flag)
      [] d.name = "Strip" -> strip(s)
      [] d.name = "Tags" -> tags(s, <<"tag">>)
      [] d.name = "Unit" -> unit(s, "unit")
      [] d.name = "Valid" -> valid(s, d.values)
      [] d.name = "When" -> when(s, d.ref, CHOOSE v \in d.values : TRUE, d.schema)
      [] d.name = "Min" -> min(s, d.limit)
      [] d.name = "Truthy" -> truthy(s, d.values)
      [] d.name = "Keys" -> keys(s, d.schema)

RECURSIVE LeftFold(_, _, _)
LeftFold(decorators, i, s) ==
    IF i > Len(decorators) THEN s
    ELSE LeftFold(decorators, i + 1, OwnOperation(decorators[i], s))

\* C5: after a class definition without error, a property decorated with one
\* establisher and then refinements r1..rn holds rn(...r1(base)...), each
\* refinement being its own algebra operation with its own arguments.
C5_StoredSchemaIsLeftFold ==
    \A p \in Props :
        (/\ thrown = NoError
         /\ OnProp(p) # <<>>
         /\ OnProp(p)[1].name \in EstablisherNames)
        => getPropertySchema(store, p)
             = LeftFold(OnProp(p), 2, JoiBase(KindOf(OnProp(p)[1].name)))

\* C7: Concat(s) on an established property stores cur.concat(s).
C7_ConcatAddsArgumentRules ==
    [][\A p \in Props :
          (/\ DecoratorStep
           /\ Ran'.prop = p
           /\ Ran'.name = "Concat"
           /\ getPropertySchema(store, p) # Absent)
          => getPropertySchema(store', p)
               = concat(getPropertySchema(store, p), Ran'.schema)]_vars

\* C8: an establisher on a property without a schema appends exactly the
\* fresh, unrefined schema of its kind under that property (so a class whose
\* only decorator is one establisher holds exactly that one entry), and no
\* establisher ever touches the entry of another property.
C8_EstablisherStoresFreshSchemaOnly ==
    [][\A p \in Props :
          (/\ DecoratorStep
           /\ Ran'.prop = p
           /\ Ran'.name \in EstablisherNames)
          => IF getPropertySchema(store, p) = Absent
             THEN /\ store' = Append(store, [key |-> p,
                                             schema |-> JoiBase(KindOf(Ran'.name))])
                  /\ thrown' = NoError
             ELSE store' = store]_vars

\* C8 witness: a class whose only decorator is AnySchema holds exactly
\* {property: Joi.any()}.
C8_Witness ==
    /\ Len(applied) = 1
    /\ Ran.name = "AnySchema"
    /\ thrown = NoError
    /\ store = <<[key |-> Ran.prop, schema |-> JoiBase("any")]>>

\* C10 (as stated): every stored schema has one base kind, a property never
\* goes back to absent, and no later decorator changes the base kind.
C10_BaseKindNeverChanges ==
    [][\A p \in Props :
          getPropertySchema(store, p) # Absent
          => (/\ getPropertySchema(store', p) # Absent
              /\ getPropertySchema(store', p).kind \in BaseKinds
              /\ getPropertySchema(store', p).kind
                   = getPropertySchema(store, p).kind)]_vars

\* C10 (amended): the same, except that When turns the schema into an
\* alternatives schema, which keeps the schema it was applied to as its base
\* type.
C10_BaseKindChangesOnlyByWhen ==
    [][\A p \in Props :
          getPropertySchema(store, p) # Absent
          => (/\ getPropertySchema(store', p) # Absent
              /\ getPropertySchema(store', p).kind \in BaseKinds
              /\ IF DecoratorStep /\ Ran'.name = "When" /\ Ran'.prop = p
                 THEN /\ getPropertySchema(store', p).kind = "alternatives"
                      /\ getPropertySchema(store, p).kind # "alternatives"
                         => getPropertySchema(store', p).baseType
                              = getPropertySchema(store, p)
                 ELSE getPropertySchema(store', p).kind
                        = getPropertySchema(store, p).kind)]_vars

\* C10 witness: a number property refined by When holds an alternatives
\* schema whose base type is the number schema.
C10_Witness ==
    /\ Len(applied) = 2
    /\ applied[1].name = "NumberSchema"
    /\ Ran.name = "When"
    /\ Ran.prop = applied[1].prop
    /\ getPropertySchema(store, Ran.prop).kind = "alternatives"
    /\ getPropertySchema(store, Ran.prop).baseType = JoiBase("number")

(* ---------------------- claims about validation ------------------------ *)

\* C3: Keys applied to a property without a schema throws
\* ValidationSchemaNotFound naming that property; with ObjectSchema applied
\* before Keys the class is defined and an instance whose nested object
\* matches the key map validates.
C3_KeysNeedsObjectSchema ==
    \A p \in Props :
        /\ (OnProp(p) # <<>> /\ OnProp(p)[1].name = "Keys")
           => (/\ thrown = ValidationSchemaNotFound(p)
               /\ getPropertySchema(store, p) = Absent)
        /\ (/\ OnlyDecorated(p)
            /\ NamesOf(applied) = <<"ObjectSchema", "Keys">>
            /\ outcomes # <<>>
            /\ Carries(p, Obj(Num(NestedNumber))))
           => (thrown = NoError /\ LastOutcome.errors = <<>>)

\* C3 witness: the class with ObjectSchema under Keys, validated on a
\* matching nested object.
C3_Witness ==
    \E p \in Props :
        /\ OnlyDecorated(p)
        /\ NamesOf(applied) = <<"ObjectSchema", "Keys">>
        /\ Carries(p, Obj(Num(NestedNumber)))
        /\ outcomes # <<>>
        /\ LastOutcome.errors = <<>>

\* C4: for @Min(10) @Optional() @NumberSchema() (applied NumberSchema,
\* Optional, Min) an undefined property validates, 5 fails with exactly one
\* error, at the property's path, and 20 validates.
C4_OptionalNumberWithMin ==
    \A p \in Props :
        (/\ OnlyDecorated(p)
         /\ NamesOf(applied) = <<"NumberSchema", "Optional", "Min">>
         /\ outcomes # <<>>
         /\ Carries(p, instance[p]))
        => /\ instance[p] = Undefined => LastOutcome.errors = <<>>
           /\ instance[p] = Num(BelowLimit)
                => (/\ Len(LastOutcome.errors) = 1
                    /\ LastOutcome.errors[1].path = <<p>>)
           /\ instance[p] = Num(AboveLimit) => LastOutcome.errors = <<>>

\* C4 witness: the class validated on the value 5.
C4_Witness ==
    \E p \in Props :
        /\ OnlyDecorated(p)
        /\ NamesOf(applied) = <<"NumberSchema", "Optional", "Min">>
        /\ Carries(p, Num(BelowLimit))
        /\ outcomes # <<>>
        /\ LastOutcome.errors = <<[path |-> <<p>>, type |-> "number.min"]>>

\* C6 (as stated): with "optional" written first and "required" below it,
\* closer to the property, an absent property fails validation; written the
\* other way round, it validates.
C6_LowerDecoratorWins ==
    \A p \in Props :
        (/\ OnlyDecorated(p)
         /\ Len(applied) = 3
         /\ DeclaredOrder(p)[3] \in EstablisherNames
         /\ outcomes # <<>>
         /\ Carries(p, Undefined))
        => /\ (DeclaredOrder(p)[1] = "Optional" /\ DeclaredOrder(p)[2] = "Required")
                => LastOutcome.errors # <<>>
           /\ (DeclaredOrder(p)[1] = "Required" /\ DeclaredOrder(p)[2] = "Optional")
                => LastOutcome.errors = <<>>

\* C6 (amended): of "optional" and "required" the one applied later wins:
\* with "required" applied after "optional" (written above it) an absent
\* property fails validation; with "optional" applied after "required" it
\* validates.
C6_LaterAppliedWins ==
    \A p \in Props :
        (/\ OnlyDecorated(p)
         /\ Len(applied) = 3
         /\ applied[1].name \in EstablisherNames
         /\ outcomes # <<>>
         /\ Carries(p, Undefined))
        => /\ (applied[2].name = "Optional" /\ applied[3].name = "Required")
                => LastOutcome.errors = <<[path |-> <<p>>, type |-> "any.required"]>>
           /\ (applied[2].name = "Required" /\ applied[3].name = "Optional")
                => LastOutcome.errors = <<>>

\* C6 witness: AnySchema, Optional, Required in application order, validated
\* on an instance without the property.
C6_Witness ==
    \E p \in Props :
        /\ OnlyDecorated(p)
        /\ NamesOf(applied) = <<"AnySchema", "Optional", "Required">>
        /\ Carries(p, Undefined)
        /\ outcomes # <<>>
        /\ LastOutcome.errors # <<>>

====
